---- MODULE Spec2Model ----
(***************************************************************************)
(* Model of src/script.js: front-end RGB k-means image segmentation with   *)
(* an interactively rotated / panned / zoomed 3D scatter plot.             *)
(*                                                                         *)
(* Numbers.  JavaScript numbers are modelled by exact arithmetic:          *)
(*   - a colour channel v in 0..1 is held as the byte b with v = b/255;    *)
(*   - a centroid is held as [s |-> <<sr,sg,sb>>, c |-> count], the value  *)
(*     of channel ch being s[ch] / c / 255, reduced to lowest terms;       *)
(*   - zoomVal is held as a signed square root of a rational (distances    *)
(*     are square roots), with the IEEE values NaN and +-Infinity;         *)
(*   - panX, panY are held in half pixels (midpoints are halves);          *)
(*   - rotXVal, rotYVal are held as the number of 0.01 rad steps added to  *)
(*     their initial angles.                                               *)
(* Floating-point rounding error is not modelled.                          *)
(***************************************************************************)
EXTENDS Integers, Sequences, FiniteSets, TLC

VARIABLES
  imgData,            \* NULL or <<[w, h, pixels]>>           (script.js:18)
  points,             \* sequence of <<r,g,b>> bytes          (script.js:19)
  centroids,          \* sequence of centroids                (script.js:20)
  clustered,          \* the run guard                        (script.js:21)
  clusterBtnDisabled, \* clusterBtn.disabled
  segCanvas,          \* [w, h, data]: the segmented output canvas
  plotCanvas,         \* what the plot canvas shows (abstract)
  logText,            \* logEl.textContent (message kind)
  pending,            \* image loads awaited, per file
  pc,                 \* "idle" between events, else position inside kmeans
  k, maxIter,         \* kmeans arguments
  C, used, labels, iter, changed,   \* kmeans locals
  pointers,           \* Map pointerId -> position, in insertion order
  lastPinchDist, lastMid, lastSingle,
  rotXVal, rotYVal, zoomVal, panX, panY,
  ev,                 \* history: the event handled last
  nCam,               \* history: number of camera-changing events so far
  pinch0,             \* history: camera and geometry when the current pinch began
  runs,               \* history: clustering runs started since the guard was last cleared
  relMove             \* history: the last pointer or wheel event was a move of an active
                      \* pointer handled directly after a pointerup / pointercancel

appVars == <<imgData, points, centroids, clustered, clusterBtnDisabled,
             segCanvas, plotCanvas, logText, pending>>
runVars == <<pc, k, maxIter, C, used, labels, iter, changed>>
gestureVars == <<pointers, lastPinchDist, lastMid, lastSingle>>
cameraVars == <<rotXVal, rotYVal, zoomVal, panX, panY>>
histVars == <<nCam, pinch0, runs, relMove>>
vars == <<appVars, runVars, gestureVars, cameraVars, ev, histVars>>

----------------------------------------------------------------------------
(* Bounds and input sets *)

\* camera-changing events (wheel, move of an active pointer) per behaviour
MaxCamEvents == 2
\* image loads that may be awaited at once
MaxPending == 2
\* largest opts.maxIter drawn when kmeans is run with drawn arguments
MaxIterArg == 2

\* opts.maxIter passed by the cluster handler
MAX_ITER == 30
\* fallback of kInput: Number(kInput.value) || 3
DEFAULT_K == 3
\* wheel sensitivity is 0.001: the factor is (WHEEL_DIV - deltaY) / WHEEL_DIV
WHEEL_DIV == 1000

NULL == <<>>
Some(v) == <<v>>
Val(o) == o[1]

Black == <<0, 0, 0>>
White == <<255, 255, 255>>
Red20 == <<20, 0, 0>>
Red30 == <<30, 0, 0>>
Blue == <<0, 0, 255>>

\* The canvases the selectable files decode to (after drawToCanvas).
Images ==
  << [w |-> 2, h |-> 1, pixels |-> <<White, Black>>],
     [w |-> 1, h |-> 3, pixels |-> <<Black, Black, White>>],
     [w |-> 2, h |-> 2, pixels |-> <<Red20, Red30, Black, Blue>>] >>

Files == 1..Len(Images)
\* files used when every kind of event is interleaved
FilesMixed == {1, 2}

\* kInput.value: not a number, or the number twice/2
KInputs ==
  { [isNum |-> FALSE, twice |-> 0] } \cup
  { [isNum |-> TRUE, twice |-> t] : t \in {-4, 0, 1, 2, 4, 5, 6, 8} }
KInputsMixed ==
  { [isNum |-> TRUE, twice |-> t] : t \in {2, 4, 6} }

PointerIds == {1, 2}
PointerIdsMixed == {1}
\* three pointers, for the states with more than two active pointers
PointerIdsMulti == {1, 2, 3}
\* collinear, so that two pointers can double their distance about a fixed midpoint
Pos == { <<0, 0>>, <<1, 2>>, <<3, 6>>, <<4, 8>> }
PosMixed == { <<0, 0>>, <<3, 6>> }
PosMulti == { <<0, 0>>, <<3, 6>> }
Deltas == {-500, 1000, 1500}
DeltasMixed == {1500}
DeltasMulti == {-500, 1500}

----------------------------------------------------------------------------
(* Arithmetic helpers *)

Abs(x) == IF x < 0 THEN -x ELSE x
Sgn(x) == IF x < 0 THEN -1 ELSE IF x = 0 THEN 0 ELSE 1

RECURSIVE GCD(_, _)
GCD(a, b) == IF b = 0 THEN a ELSE GCD(b, a % b)

Gcd3(t) == GCD(GCD(Abs(t[1]), Abs(t[2])), Abs(t[3]))

\* a centroid in lowest terms
Norm(s, c) ==
  LET g == GCD(Gcd3(s), c)
  IN [s |-> <<s[1] \div g, s[2] \div g, s[3] \div g>>, c |-> c \div g]

\* X[i].slice(): a centroid that is a copy of a point
CopyPoint(p) == [s |-> p, c |-> 1]

\* dist2(x, c) as the fraction num / den (den > 0)
Dist2Num(x, c) ==
  (x[1] * c.c - c.s[1]) * (x[1] * c.c - c.s[1])
  + (x[2] * c.c - c.s[2]) * (x[2] * c.c - c.s[2])
  + (x[3] * c.c - c.s[3]) * (x[3] * c.c - c.s[3])
Dist2Den(c) == c.c * c.c

\* dist2(x, a) < dist2(x, b)
Closer(x, a, b) == Dist2Num(x, a) * Dist2Den(b) < Dist2Num(x, b) * Dist2Den(a)

\* the inner loop with "if(d<=bestd)": the last of the nearest centroids
RECURSIVE NearestLastFrom(_, _, _, _)
NearestLastFrom(x, cs, j, best) ==
  IF j > Len(cs) THEN best
  ELSE NearestLastFrom(x, cs, j + 1, IF Closer(x, cs[best], cs[j]) THEN best ELSE j)
NearestLast(x, cs) == NearestLastFrom(x, cs, 2, 1)

\* the inner loop "best=0; for j=1..: if(d<bestd){best=j}" over centroid list cs
RECURSIVE NearestFrom(_, _, _, _)
NearestFrom(x, cs, j, best) ==
  IF j > Len(cs) THEN best
  ELSE NearestFrom(x, cs, j + 1, IF Closer(x, cs[j], cs[best]) THEN j ELSE best)

\* index (1-based) of the centroid chosen for x
Nearest(x, cs) == NearestFrom(x, cs, 2, 1)

\* Math.round(v * 255) for v = s/c/255, s >= 0: round half up
Round255(s, c) == (2 * s + c) \div (2 * c)

Quantize(c) == <<Round255(c.s[1], c.c), Round255(c.s[2], c.c), Round255(c.s[3], c.c), 255>>

----------------------------------------------------------------------------
(* Image and point helpers *)

\* buildPoints: one point per pixel, rows outermost (index (y*w + x))
BuildPoints(img) ==
  [ i \in 1..(img.w * img.h) |->
      LET y == (i - 1) \div img.w
          x == (i - 1) % img.w
      IN img.pixels[y * img.w + x + 1] ]

\* canvas.width = ..; canvas.height = ..: a cleared (transparent) canvas
BlankCanvas(w, h) == [w |-> w, h |-> h, data |-> [i \in 1..(w * h) |-> <<0, 0, 0, 0>>]]

\* what drawPlot paints: background only, the cloud, or the cloud and centroids
DrawPlot(pts, cents) ==
  IF Len(pts) = 0 THEN "black"
  ELSE IF Len(cents) > 0 THEN "centroids" ELSE "points"

\* k = Math.max(1, Math.floor(Number(kInput.value) || 3))
KOf(kv) ==
  LET a == IF kv.isNum /\ kv.twice # 0 THEN kv.twice \div 2 ELSE DEFAULT_K
  IN IF a < 1 THEN 1 ELSE a

----------------------------------------------------------------------------
(* kmeans: one iteration of the for loop *)

\* the assign loop: the label (0-based) of every point
Assign(X, cs) == [i \in 1..Len(X) |-> Nearest(X[i], cs) - 1]

RECURSIVE SumOf(_, _, _, _)
\* sums[j] over points i..Len(X) whose label is j
SumOf(X, lab, j, i) ==
  IF i > Len(X) THEN <<0, 0, 0>>
  ELSE LET r == SumOf(X, lab, j, i + 1)
       IN IF lab[i] = j THEN <<X[i][1] + r[1], X[i][2] + r[2], X[i][3] + r[3]>> ELSE r

CountOf(lab, j) == Cardinality({i \in 1..Len(lab) : lab[i] = j})

\* an update loop whose sums start at the second point
UpdateSkipsFirst(X, lab, cs) ==
  [ j \in 1..Len(cs) |->
      IF CountOf(lab, j - 1) = 0 THEN cs[j]
      ELSE Norm(SumOf(X, lab, j - 1, 2), CountOf(lab, j - 1)) ]

\* an update loop that re-seeds a centroid with no point from the last point
UpdateReseedsEmpty(X, lab, cs) ==
  [ j \in 1..Len(cs) |->
      IF CountOf(lab, j - 1) = 0 THEN CopyPoint(X[Len(X)])
      ELSE Norm(SumOf(X, lab, j - 1, 1), CountOf(lab, j - 1)) ]

\* the update loop: a centroid with no point keeps its value
Update(X, lab, cs) ==
  [ j \in 1..Len(cs) |->
      IF CountOf(lab, j - 1) = 0 THEN cs[j]
      ELSE Norm(SumOf(X, lab, j - 1, 1), CountOf(lab, j - 1)) ]

----------------------------------------------------------------------------
(* applySegmentation *)

\* "if(d<=bestd)" in place of "if(d<bestd)": the last of the nearest centroids
RECURSIVE SegNearestLastFrom(_, _, _, _)
SegNearestLastFrom(px, cents, j, best) ==
  IF j > Len(cents) THEN best
  ELSE SegNearestLastFrom(px, cents, j + 1,
                          IF Closer(px, cents[best], cents[j]) THEN best ELSE j)
SegNearestLast(px, cents) == SegNearestLastFrom(px, cents, 2, 1)

\* "best=0; for(j=1;j<centroids.length;j++){ if(d<bestd){ best=j } }"
RECURSIVE SegNearestFrom(_, _, _, _)
SegNearestFrom(px, cents, j, best) ==
  IF j > Len(cents) THEN best
  ELSE SegNearestFrom(px, cents, j + 1, IF Closer(px, cents[j], cents[best]) THEN j ELSE best)
SegNearest(px, cents) == SegNearestFrom(px, cents, 2, 1)

\* the ImageData written: the quantized nearest centroid of every pixel
SegmentOut(img, cents) ==
  [ i \in 1..(img.w * img.h) |->
      LET y == (i - 1) \div img.w
          x == (i - 1) % img.w
          px == img.pixels[y * img.w + x + 1]
      IN Quantize(cents[SegNearest(px, cents)]) ]

\* ctx.putImageData(out, 0, 0) on a canvas
PutImageData(canvas, out, w, h) ==
  [ canvas EXCEPT !.data =
      [ i \in 1..(canvas.w * canvas.h) |->
          LET y == (i - 1) \div canvas.w
              x == (i - 1) % canvas.w
          IN IF x < w /\ y < h THEN out[y * w + x + 1] ELSE canvas.data[i] ] ]

ApplySegmentation(imgOpt, cents, canvas) ==
  IF imgOpt = NULL THEN canvas
  ELSE PutImageData(canvas, SegmentOut(Val(imgOpt), cents), Val(imgOpt).w, Val(imgOpt).h)

----------------------------------------------------------------------------
(* Initial state *)

\* zoomVal = 1.2 = sqrt(36/25)
ZoomInit == [kind |-> "fin", sg |-> 1, n |-> 36, d |-> 25]

Init ==
  /\ imgData = NULL
  /\ points = <<>>
  /\ centroids = <<>>
  /\ clustered = FALSE
  /\ clusterBtnDisabled = FALSE
  /\ segCanvas = BlankCanvas(0, 0)
  /\ plotCanvas = "clear"
  /\ logText = ""
  /\ pending = [f \in Files |-> 0]
  /\ pc = "idle"
  /\ k = 0
  /\ maxIter = 0
  /\ C = <<>>
  /\ used = {}
  /\ labels = <<>>
  /\ iter = 0
  /\ changed = FALSE
  /\ pointers = <<>>
  /\ lastPinchDist = NULL
  /\ lastMid = NULL
  /\ lastSingle = NULL
  /\ rotXVal = 0
  /\ rotYVal = 0
  /\ zoomVal = ZoomInit
  /\ panX = 0
  /\ panY = 0
  /\ ev = "none"
  /\ nCam = 0
  /\ pinch0 = NULL
  /\ runs = 0
  /\ relMove = FALSE

----------------------------------------------------------------------------
(* File input, plot, cluster and reset handlers *)

RECURSIVE SumPending(_, _)
SumPending(pd, f) == IF f = 0 THEN 0 ELSE pd[f] + SumPending(pd, f - 1)
NumPending == SumPending(pending, Len(Images))

\* fileInput 'change' up to the await; sel = NULL when no file is selected
FileChange(sel) ==
  /\ pc = "idle"
  /\ ev' = "file"
  /\ IF sel = NULL THEN pending' = pending
     ELSE /\ NumPending < MaxPending
          /\ pending' = [pending EXCEPT ![Val(sel)] = @ + 1]
  /\ UNCHANGED <<imgData, points, centroids, clustered, clusterBtnDisabled,
                 segCanvas, plotCanvas, logText>>
  /\ UNCHANGED <<runVars, gestureVars, cameraVars, histVars>>

\* a load completion that keeps the points of the image shown before
LoadDoneKeepsPoints(f) ==
  /\ pc = "idle"
  /\ pending[f] > 0
  /\ pending' = [pending EXCEPT ![f] = @ - 1]
  /\ imgData' = Some(Images[f])
  /\ segCanvas' = BlankCanvas(Images[f].w, Images[f].h)
  /\ clustered' = FALSE
  /\ centroids' = <<>>
  /\ clusterBtnDisabled' = FALSE
  /\ logText' = "Image loaded"
  /\ ev' = "load"
  /\ runs' = 0
  /\ UNCHANGED <<points, plotCanvas>>
  /\ UNCHANGED <<runVars, gestureVars, cameraVars, nCam, pinch0, relMove>>

\* a load completion that leaves the cluster button as it is
LoadDoneKeepsButton(f) ==
  /\ pc = "idle"
  /\ pending[f] > 0
  /\ pending' = [pending EXCEPT ![f] = @ - 1]
  /\ imgData' = Some(Images[f])
  /\ segCanvas' = BlankCanvas(Images[f].w, Images[f].h)
  /\ clustered' = FALSE
  /\ centroids' = <<>>
  /\ points' = <<>>
  /\ logText' = "Image loaded"
  /\ ev' = "load"
  /\ runs' = 0
  /\ UNCHANGED <<clusterBtnDisabled, plotCanvas>>
  /\ UNCHANGED <<runVars, gestureVars, cameraVars, nCam, pinch0, relMove>>

\* img.onload: the rest of the 'change' handler
LoadDone(f) ==
  /\ pc = "idle"
  /\ pending[f] > 0
  /\ pending' = [pending EXCEPT ![f] = @ - 1]
  /\ imgData' = Some(Images[f])
  /\ segCanvas' = BlankCanvas(Images[f].w, Images[f].h)
  /\ clustered' = FALSE
  /\ centroids' = <<>>
  /\ points' = <<>>
  /\ clusterBtnDisabled' = FALSE
  /\ logText' = "Image loaded"
  /\ ev' = "load"
  /\ runs' = 0
  /\ UNCHANGED plotCanvas
  /\ UNCHANGED <<runVars, gestureVars, cameraVars, nCam, pinch0, relMove>>

\* img.onerror: the awaited promise rejects and the handler ends
LoadError(f) ==
  /\ pc = "idle"
  /\ pending[f] > 0
  /\ pending' = [pending EXCEPT ![f] = @ - 1]
  /\ ev' = "loadError"
  /\ UNCHANGED <<imgData, points, centroids, clustered, clusterBtnDisabled,
                 segCanvas, plotCanvas, logText>>
  /\ UNCHANGED <<runVars, gestureVars, cameraVars, histVars>>

\* a plot handler that also resets the clustering state
PlotClickClearsGuard ==
  /\ pc = "idle"
  /\ ev' = "plot"
  /\ IF imgData = NULL
     THEN /\ logText' = "Load an image first"
          /\ UNCHANGED <<points, plotCanvas, clustered, clusterBtnDisabled>>
     ELSE /\ points' = BuildPoints(Val(imgData))
          /\ plotCanvas' = DrawPlot(points', centroids)
          /\ logText' = "Plotted"
          /\ clustered' = FALSE
          /\ clusterBtnDisabled' = FALSE
  /\ UNCHANGED <<imgData, centroids, segCanvas, pending>>
  /\ UNCHANGED <<runVars, gestureVars, cameraVars, histVars>>

PlotClick ==
  /\ pc = "idle"
  /\ ev' = "plot"
  /\ IF imgData = NULL
     THEN /\ logText' = "Load an image first"
          /\ UNCHANGED <<points, plotCanvas>>
     ELSE /\ points' = BuildPoints(Val(imgData))
          /\ plotCanvas' = DrawPlot(points', centroids)
          /\ logText' = "Plotted"
  /\ UNCHANGED <<imgData, centroids, clustered, clusterBtnDisabled, segCanvas, pending>>
  /\ UNCHANGED <<runVars, gestureVars, cameraVars, histVars>>

\* the cluster handler without its "if(clustered) return" line
ClusterClickNoGuard(kv) ==
  /\ pc = "idle"
  /\ ev' = "cluster"
  /\ IF imgData = NULL
     THEN /\ logText' = "Load an image first"
          /\ UNCHANGED <<points, clusterBtnDisabled, plotCanvas, runVars, runs>>
     ELSE /\ clusterBtnDisabled' = TRUE
          /\ points' = IF Len(points) = 0 THEN BuildPoints(Val(imgData)) ELSE points
          /\ plotCanvas' = DrawPlot(points', centroids)
          /\ logText' = "Running k-means"
          /\ k' = KOf(kv)
          /\ maxIter' = MAX_ITER
          /\ C' = <<>>
          /\ used' = {}
          /\ pc' = "init"
          /\ runs' = runs + 1
          /\ UNCHANGED <<labels, iter, changed>>
  /\ UNCHANGED <<imgData, centroids, clustered, segCanvas, pending>>
  /\ UNCHANGED <<gestureVars, cameraVars, nCam, pinch0, relMove>>

\* clusterBtn 'click' up to the first test of the while loop in kmeans
ClusterClick(kv) ==
  /\ pc = "idle"
  /\ ev' = "cluster"
  /\ IF clustered
     THEN /\ logText' = "K-means already run"
          /\ UNCHANGED <<points, clusterBtnDisabled, plotCanvas, runVars, runs>>
     ELSE IF imgData = NULL
     THEN /\ logText' = "Load an image first"
          /\ UNCHANGED <<points, clusterBtnDisabled, plotCanvas, runVars, runs>>
     ELSE /\ clusterBtnDisabled' = TRUE
          /\ points' = IF Len(points) = 0 THEN BuildPoints(Val(imgData)) ELSE points
          /\ plotCanvas' = DrawPlot(points', centroids)
          /\ logText' = "Running k-means"
          /\ k' = KOf(kv)
          /\ maxIter' = MAX_ITER
          /\ C' = <<>>
          /\ used' = {}
          /\ pc' = "init"
          /\ runs' = runs + 1
          /\ UNCHANGED <<labels, iter, changed>>
  /\ UNCHANGED <<imgData, centroids, clustered, segCanvas, pending>>
  /\ UNCHANGED <<gestureVars, cameraVars, nCam, pinch0, relMove>>

\* the initialization loop without "if(used.has(i)) continue": draws with
\* replacement
KmeansInitPickWithReplacement ==
  /\ pc = "init"
  /\ \E i \in 0..(Len(points) - 1) :
       /\ used' = used \cup {i}
       /\ C' = Append(C, CopyPoint(points[i + 1]))
       /\ IF Len(C') < k
          THEN UNCHANGED <<pc, labels, iter, changed>>
          ELSE /\ pc' = "iter"
               /\ labels' = [p \in 1..Len(points) |-> 0]
               /\ iter' = 0
               /\ changed' = FALSE
  /\ UNCHANGED <<k, maxIter, ev>>
  /\ UNCHANGED <<appVars, gestureVars, cameraVars, histVars>>

\* one pass of "while(C.length<k){ i=rng(); if(used.has(i)) continue; ... }"
KmeansInitPick ==
  /\ pc = "init"
  /\ \E i \in 0..(Len(points) - 1) :
       IF i \in used
       THEN UNCHANGED <<pc, C, used, labels, iter, changed>>
       ELSE /\ used' = used \cup {i}
            /\ C' = Append(C, CopyPoint(points[i + 1]))
            /\ IF Len(C') < k
               THEN UNCHANGED <<pc, labels, iter, changed>>
               ELSE /\ pc' = "iter"
                    /\ labels' = [p \in 1..Len(points) |-> 0]
                    /\ iter' = 0
                    /\ changed' = FALSE
  /\ UNCHANGED <<k, maxIter, ev>>
  /\ UNCHANGED <<appVars, gestureVars, cameraVars, histVars>>

\* one pass of "for(iter=0; iter<opts.maxIter; iter++){ assign; update; break? }"
KmeansIterate ==
  /\ pc = "iter"
  /\ IF iter < maxIter
     THEN /\ labels' = Assign(points, C)
          /\ changed' = (labels' # labels)
          /\ C' = Update(points, labels', C)
          /\ iter' = IF changed' THEN iter + 1 ELSE iter
          /\ pc' = IF changed' THEN "iter" ELSE "ret"
     ELSE /\ pc' = "ret"
          /\ UNCHANGED <<C, labels, iter, changed>>
  /\ UNCHANGED <<k, maxIter, used, ev>>
  /\ UNCHANGED <<appVars, gestureVars, cameraVars, histVars>>

\* "return C" and the rest of the cluster handler
ClusterFinish ==
  /\ pc = "ret"
  /\ centroids' = C
  /\ clustered' = TRUE
  /\ plotCanvas' = DrawPlot(points, centroids')
  /\ segCanvas' = ApplySegmentation(imgData, centroids', segCanvas)
  /\ logText' = "K-means finished"
  /\ pc' = "idle"
  /\ k' = 0
  /\ maxIter' = 0
  /\ C' = <<>>
  /\ used' = {}
  /\ labels' = <<>>
  /\ iter' = 0
  /\ changed' = FALSE
  /\ UNCHANGED <<imgData, points, clusterBtnDisabled, pending, ev>>
  /\ UNCHANGED <<gestureVars, cameraVars, histVars>>

\* a reset that also puts the view back to its initial rotation, zoom and pan
ResetClickResetsCamera ==
  /\ pc = "idle"
  /\ ev' = "reset"
  /\ imgData' = NULL
  /\ points' = <<>>
  /\ centroids' = <<>>
  /\ segCanvas' = BlankCanvas(0, 0)
  /\ plotCanvas' = "clear"
  /\ logText' = "Reset"
  /\ clustered' = FALSE
  /\ clusterBtnDisabled' = FALSE
  /\ runs' = 0
  /\ rotXVal' = 0 /\ rotYVal' = 0 /\ zoomVal' = ZoomInit /\ panX' = 0 /\ panY' = 0
  /\ UNCHANGED pending
  /\ UNCHANGED <<runVars, gestureVars, nCam, pinch0, relMove>>

ResetClick ==
  /\ pc = "idle"
  /\ ev' = "reset"
  /\ imgData' = NULL
  /\ points' = <<>>
  /\ centroids' = <<>>
  /\ segCanvas' = BlankCanvas(0, 0)
  /\ plotCanvas' = "clear"
  /\ logText' = "Reset"
  /\ clustered' = FALSE
  /\ clusterBtnDisabled' = FALSE
  /\ runs' = 0
  /\ UNCHANGED pending
  /\ UNCHANGED <<runVars, gestureVars, cameraVars, nCam, pinch0, relMove>>

FileSels(fs) == {NULL} \cup {Some(f) : f \in fs}

NextApp ==
  \/ \E sel \in FileSels(Files) : FileChange(sel)
  \/ \E f \in Files : LoadDone(f)
  \/ \E f \in Files : LoadError(f)
  \/ PlotClick
  \/ \E kv \in KInputs : ClusterClick(kv)
  \/ KmeansInitPick
  \/ KmeansIterate
  \/ ClusterFinish
  \/ ResetClick

SpecApp == Init /\ [][NextApp]_vars

\* kmeans(points, k, opts) entered from the cluster handler, for the points of
\* any image and drawn arguments: k up to one more than the number of points,
\* opts.maxIter from 0
InitKmeans ==
  /\ \E f \in Files :
       /\ imgData = Some(Images[f])
       /\ points = BuildPoints(Images[f])
       /\ segCanvas = BlankCanvas(Images[f].w, Images[f].h)
       /\ k \in 1..(Images[f].w * Images[f].h + 1)
  /\ maxIter \in 0..MaxIterArg
  /\ centroids = <<>>
  /\ clustered = FALSE
  /\ clusterBtnDisabled = TRUE
  /\ plotCanvas = "points"
  /\ logText = "Running k-means"
  /\ pending = [f \in Files |-> 0]
  /\ pc = "init"
  /\ C = <<>>
  /\ used = {}
  /\ labels = <<>>
  /\ iter = 0
  /\ changed = FALSE
  /\ pointers = <<>>
  /\ lastPinchDist = NULL
  /\ lastMid = NULL
  /\ lastSingle = NULL
  /\ rotXVal = 0
  /\ rotYVal = 0
  /\ zoomVal = ZoomInit
  /\ panX = 0
  /\ panY = 0
  /\ ev = "cluster"
  /\ nCam = 0
  /\ pinch0 = NULL
  /\ runs = 1
  /\ relMove = FALSE

NextKmeans ==
  \/ KmeansInitPick
  \/ KmeansIterate
  \/ ClusterFinish

SpecKmeans == InitKmeans /\ [][NextKmeans]_vars

----------------------------------------------------------------------------
(* Camera arithmetic *)

ZNaN == [kind |-> "nan", sg |-> 0, n |-> 0, d |-> 1]
ZInf(s) == [kind |-> "inf", sg |-> s, n |-> 0, d |-> 1]
\* s * sqrt(n / d) in lowest terms (the sign of a zero is not kept)
ZFin(s, n, d) ==
  IF n = 0 \/ s = 0 THEN [kind |-> "fin", sg |-> 0, n |-> 0, d |-> 1]
  ELSE [kind |-> "fin", sg |-> s, n |-> n \div GCD(n, d), d |-> d \div GCD(n, d)]

\* IEEE product a * b
ZMul(a, b) ==
  IF a.kind = "nan" \/ b.kind = "nan" THEN ZNaN
  ELSE IF a.kind = "inf" \/ b.kind = "inf"
       THEN IF a.sg * b.sg = 0 THEN ZNaN ELSE ZInf(a.sg * b.sg)
  ELSE LET g1 == GCD(a.n, b.d)
           g2 == GCD(b.n, a.d)
       IN IF a.sg * b.sg = 0 THEN ZFin(0, 0, 1)
          ELSE ZFin(a.sg * b.sg, (a.n \div g1) * (b.n \div g2), (a.d \div g2) * (b.d \div g1))

\* distance(a,b) = Math.hypot(dx,dy), held as its square
distance(a, b) == (a[1] - b[1]) * (a[1] - b[1]) + (a[2] - b[2]) * (a[2] - b[2])
\* midpoint(a,b), held doubled
midpoint(a, b) == <<a[1] + b[1], a[2] + b[2]>>

\* dist / lastPinchDist for the squares dd and ll (IEEE division)
PinchFactor(dd, ll) ==
  IF ll = 0 THEN (IF dd = 0 THEN ZNaN ELSE ZInf(1))
  ELSE ZFin(Sgn(dd), dd, ll)

\* 1 + delta*0.001 with delta = +e.deltaY
WheelFactorFlipped(deltaY) ==
  ZFin(Sgn(WHEEL_DIV + deltaY),
       (WHEEL_DIV + deltaY) * (WHEEL_DIV + deltaY), WHEEL_DIV * WHEEL_DIV)

\* 1 + delta*0.001 with delta = -e.deltaY
WheelFactor(deltaY) ==
  ZFin(Sgn(WHEEL_DIV - deltaY),
       (WHEEL_DIV - deltaY) * (WHEEL_DIV - deltaY), WHEEL_DIV * WHEEL_DIV)

----------------------------------------------------------------------------
(* Pointer and wheel handlers of plotCanvas *)

ActiveIds == {pointers[i].id : i \in 1..Len(pointers)}
IndexOf(id) == CHOOSE i \in 1..Len(pointers) : pointers[i].id = id

\* pointers.delete(id): the remaining entries keep their order
RECURSIVE Without(_, _)
Without(ps, id) ==
  IF ps = <<>> THEN <<>>
  ELSE IF Head(ps).id = id THEN Tail(ps)
  ELSE <<Head(ps)>> \o Without(Tail(ps), id)

Snapshot(z, px, py, ps) ==
  [zoom |-> z, panX |-> px, panY |-> py, rotX |-> rotXVal, rotY |-> rotYVal,
   dist |-> distance(ps[1].p, ps[2].p), mid |-> midpoint(ps[1].p, ps[2].p)]

\* a pointer goes down only while it is not down (Pointer Events)
PointerDown(id, p) ==
  /\ pc = "idle"
  /\ id \notin ActiveIds
  /\ ev' = "down"
  /\ pointers' = Append(pointers, [id |-> id, p |-> p])
  /\ IF Len(pointers') = 1
     THEN /\ lastSingle' = Some(p)
          /\ UNCHANGED <<lastPinchDist, lastMid>>
     ELSE IF Len(pointers') = 2
     THEN /\ lastPinchDist' = Some(distance(pointers'[1].p, pointers'[2].p))
          /\ lastMid' = Some(midpoint(pointers'[1].p, pointers'[2].p))
          /\ UNCHANGED lastSingle
     ELSE UNCHANGED <<lastPinchDist, lastMid, lastSingle>>
  /\ pinch0' = IF Len(pointers') = 2 THEN Some(Snapshot(zoomVal, panX, panY, pointers'))
               ELSE NULL
  /\ relMove' = FALSE
  /\ UNCHANGED <<appVars, runVars, cameraVars, nCam, runs>>

\* a move handler that keeps the baseline of the pointer-down (cumulative)
PointerMoveKeepsBaseline(id, p) ==
  /\ pc = "idle"
  /\ ev' = "move"
  /\ relMove' = (id \in ActiveIds /\ ev \in {"up", "cancel"})
  /\ IF id \notin ActiveIds
     THEN UNCHANGED <<gestureVars, cameraVars, plotCanvas, nCam, pinch0>>
     ELSE /\ nCam < MaxCamEvents
          /\ nCam' = nCam + 1
          /\ pointers' = [pointers EXCEPT ![IndexOf(id)].p = p]
          /\ IF Len(pointers) = 1
             THEN /\ IF lastSingle # NULL
                     THEN /\ rotYVal' = rotYVal + (pointers'[1].p[1] - Val(lastSingle)[1])
                          /\ rotXVal' = rotXVal + (pointers'[1].p[2] - Val(lastSingle)[2])
                          /\ plotCanvas' = DrawPlot(points, centroids)
                     ELSE UNCHANGED <<rotXVal, rotYVal, plotCanvas>>
                  /\ lastSingle' = Some(pointers'[1].p)
                  /\ UNCHANGED <<zoomVal, panX, panY, lastPinchDist, lastMid, pinch0>>
             ELSE IF Len(pointers) = 2
             THEN LET dist == distance(pointers'[1].p, pointers'[2].p)
                      mid == midpoint(pointers'[1].p, pointers'[2].p)
                  IN /\ zoomVal' = IF lastPinchDist # NULL
                                   THEN ZMul(zoomVal, PinchFactor(dist, Val(lastPinchDist)))
                                   ELSE zoomVal
                     /\ panX' = IF lastMid # NULL THEN panX + (mid[1] - Val(lastMid)[1]) ELSE panX
                     /\ panY' = IF lastMid # NULL THEN panY + (mid[2] - Val(lastMid)[2]) ELSE panY
                     /\ lastPinchDist' = IF lastPinchDist = NULL THEN Some(dist) ELSE lastPinchDist
                     /\ lastMid' = IF lastMid = NULL THEN Some(mid) ELSE lastMid
                     /\ lastSingle' = NULL
                     /\ plotCanvas' = DrawPlot(points, centroids)
                     /\ pinch0' = IF lastPinchDist = NULL
                                  THEN Some(Snapshot(zoomVal', panX', panY', pointers'))
                                  ELSE pinch0
                     /\ UNCHANGED <<rotXVal, rotYVal>>
             ELSE UNCHANGED <<cameraVars, lastPinchDist, lastMid, lastSingle,
                              plotCanvas, pinch0>>
  /\ UNCHANGED <<imgData, points, centroids, clustered, clusterBtnDisabled,
                 segCanvas, logText, pending>>
  /\ UNCHANGED <<runVars, runs>>

PointerMove(id, p) ==
  /\ pc = "idle"
  /\ ev' = "move"
  /\ relMove' = (id \in ActiveIds /\ ev \in {"up", "cancel"})
  /\ IF id \notin ActiveIds
     THEN UNCHANGED <<gestureVars, cameraVars, plotCanvas, nCam, pinch0>>
     ELSE /\ nCam < MaxCamEvents
          /\ nCam' = nCam + 1
          /\ pointers' = [pointers EXCEPT ![IndexOf(id)].p = p]
          /\ IF Len(pointers) = 1
             THEN /\ IF lastSingle # NULL
                     THEN /\ rotYVal' = rotYVal + (pointers'[1].p[1] - Val(lastSingle)[1])
                          /\ rotXVal' = rotXVal + (pointers'[1].p[2] - Val(lastSingle)[2])
                          /\ plotCanvas' = DrawPlot(points, centroids)
                     ELSE UNCHANGED <<rotXVal, rotYVal, plotCanvas>>
                  /\ lastSingle' = Some(pointers'[1].p)
                  /\ UNCHANGED <<zoomVal, panX, panY, lastPinchDist, lastMid, pinch0>>
             ELSE IF Len(pointers) = 2
             THEN LET dist == distance(pointers'[1].p, pointers'[2].p)
                      mid == midpoint(pointers'[1].p, pointers'[2].p)
                  IN /\ zoomVal' = IF lastPinchDist # NULL
                                   THEN ZMul(zoomVal, PinchFactor(dist, Val(lastPinchDist)))
                                   ELSE zoomVal
                     /\ panX' = IF lastMid # NULL THEN panX + (mid[1] - Val(lastMid)[1]) ELSE panX
                     /\ panY' = IF lastMid # NULL THEN panY + (mid[2] - Val(lastMid)[2]) ELSE panY
                     /\ lastPinchDist' = Some(dist)
                     /\ lastMid' = Some(mid)
                     /\ lastSingle' = NULL
                     /\ plotCanvas' = DrawPlot(points, centroids)
                     /\ pinch0' = IF lastPinchDist = NULL
                                  THEN Some(Snapshot(zoomVal', panX', panY', pointers'))
                                  ELSE pinch0
                     /\ UNCHANGED <<rotXVal, rotYVal>>
             ELSE UNCHANGED <<cameraVars, lastPinchDist, lastMid, lastSingle,
                              plotCanvas, pinch0>>
  /\ UNCHANGED <<imgData, points, centroids, clustered, clusterBtnDisabled,
                 segCanvas, logText, pending>>
  /\ UNCHANGED <<runVars, runs>>

\* a release that leaves the pinch baseline in place
ReleaseKeepsPinch(id) ==
  /\ pc = "idle"
  /\ pointers' = Without(pointers, id)
  /\ lastSingle' = NULL
  /\ pinch0' = NULL
  /\ relMove' = FALSE
  /\ UNCHANGED <<lastPinchDist, lastMid>>
  /\ UNCHANGED <<appVars, runVars, cameraVars, nCam, runs>>

\* a release that leaves the single-pointer baseline in place
ReleaseKeepsSingle(id) ==
  /\ pc = "idle"
  /\ pointers' = Without(pointers, id)
  /\ lastPinchDist' = NULL
  /\ lastMid' = NULL
  /\ pinch0' = NULL
  /\ relMove' = FALSE
  /\ UNCHANGED lastSingle
  /\ UNCHANGED <<appVars, runVars, cameraVars, nCam, runs>>

\* the body shared by the pointerup and pointercancel handlers
Release(id) ==
  /\ pc = "idle"
  /\ pointers' = Without(pointers, id)
  /\ lastPinchDist' = NULL
  /\ lastMid' = NULL
  /\ lastSingle' = NULL
  /\ pinch0' = NULL
  /\ relMove' = FALSE
  /\ UNCHANGED <<appVars, runVars, cameraVars, nCam, runs>>

PointerUp(id) == Release(id) /\ ev' = "up"

PointerCancel(id) == Release(id) /\ ev' = "cancel"

Wheel(deltaY) ==
  /\ pc = "idle"
  /\ nCam < MaxCamEvents
  /\ nCam' = nCam + 1
  /\ ev' = "wheel"
  /\ zoomVal' = ZMul(zoomVal, WheelFactor(deltaY))
  /\ plotCanvas' = DrawPlot(points, centroids)
  /\ pinch0' = NULL
  /\ relMove' = FALSE
  /\ UNCHANGED <<rotXVal, rotYVal, panX, panY, gestureVars>>
  /\ UNCHANGED <<imgData, points, centroids, clustered, clusterBtnDisabled,
                 segCanvas, logText, pending>>
  /\ UNCHANGED <<runVars, runs>>

NextGesture ==
  \/ \E id \in PointerIds, p \in Pos : PointerDown(id, p)
  \/ \E id \in PointerIds, p \in Pos : PointerMove(id, p)
  \/ \E id \in PointerIds : PointerUp(id)
  \/ \E id \in PointerIds : PointerCancel(id)
  \/ \E deltaY \in Deltas : Wheel(deltaY)

SpecGesture == Init /\ [][NextGesture]_vars

\* the pointer and wheel events of up to three pointers
NextMulti ==
  \/ \E id \in PointerIdsMulti, p \in PosMulti : PointerDown(id, p)
  \/ \E id \in PointerIdsMulti, p \in PosMulti : PointerMove(id, p)
  \/ \E id \in PointerIdsMulti : PointerUp(id)
  \/ \E id \in PointerIdsMulti : PointerCancel(id)
  \/ \E deltaY \in DeltasMulti : Wheel(deltaY)

SpecMulti == Init /\ [][NextMulti]_vars

\* every kind of event, interleaved
Next ==
  \/ \E sel \in FileSels(FilesMixed) : FileChange(sel)
  \/ \E f \in FilesMixed : LoadDone(f)
  \/ \E f \in FilesMixed : LoadError(f)
  \/ PlotClick
  \/ \E kv \in KInputsMixed : ClusterClick(kv)
  \/ KmeansInitPick
  \/ KmeansIterate
  \/ ClusterFinish
  \/ ResetClick
  \/ \E id \in PointerIdsMixed, p \in PosMixed : PointerDown(id, p)
  \/ \E id \in PointerIdsMixed, p \in PosMixed : PointerMove(id, p)
  \/ \E id \in PointerIdsMixed : PointerUp(id)
  \/ \E id \in PointerIdsMixed : PointerCancel(id)
  \/ \E deltaY \in DeltasMixed : Wheel(deltaY)

Spec == Init /\ [][Next]_vars

----------------------------------------------------------------------------
(* Properties of the clustering request *)

InRun == pc \in {"init", "iter", "ret"}

\* C1: a clustering request with invalid arguments (no points, k < 1 or
\* k > number of points) is refused: it never starts the initialization or the
\* iteration of kmeans.
C1_InvalidArgsRejected == InRun => (Len(points) > 0 /\ 1 <= k /\ k <= Len(points))

\* C2: every run that has started can finish: while the initialization still
\* has centroids to draw an unused point index is left to draw, and the loop
\* never runs past maxIter iterations.
C2_RunCanFinish ==
  /\ pc = "init" => (\E i \in 0..(Len(points) - 1) : i \notin used)
  /\ InRun => iter <= maxIter

\* C3: at most one clustering run is started between two guard-clearing events
\* (load completion, reset), and a cluster request made while the guard is set
\* changes nothing but the notification text.
C3_AtMostOneRun ==
  /\ [](runs <= 1)
  /\ [][ (clustered /\ ev' = "cluster") =>
           /\ logText' = "K-means already run"
           /\ UNCHANGED <<imgData, points, centroids, clustered, clusterBtnDisabled,
                          segCanvas, plotCanvas, pending>>
           /\ UNCHANGED <<runVars, gestureVars, cameraVars, histVars>> ]_vars

\* a request was refused by the guard after a run had finished
C3_Witness ==
  /\ clustered
  /\ runs = 1
  /\ logText = "K-means already run"
  /\ Len(centroids) > 0

----------------------------------------------------------------------------
(* Properties of the run guard *)

\* a cluster request that starts a run / that is refused for want of an image
RunStart == \E kv \in KInputsMixed : ClusterClick(kv) /\ pc' = "init"
RefusedNoImage ==
  \E kv \in KInputsMixed : ClusterClick(kv) /\ pc' = "idle" /\ logText' = "Load an image first"

GuardSteps ==
  /\ [][ (clustered /\ ~clustered') => ev' \in {"reset", "load"} ]_vars
  /\ [][ ev' \in {"plot", "down", "move", "up", "cancel", "wheel"} =>
           clustered' = clustered ]_vars
  /\ [][ (ev' = "cluster" /\ pc = "idle" /\ pc' = "idle") => clustered' = clustered ]_vars

----------------------------------------------------------------------------
(* Properties of kmeans and applySegmentation *)

\* dist2(x, a) and dist2(x, b) compared as fractions
D2Less(x, a, b) == Dist2Num(x, a) * (b.c * b.c) < Dist2Num(x, b) * (a.c * a.c)

\* j is the lowest index among the centroids of cs nearest to x
LowestNearest(x, cs, j) ==
  /\ j \in 1..Len(cs)
  /\ \A j2 \in 1..Len(cs) : ~D2Less(x, cs[j2], cs[j])
  /\ \A j2 \in 1..(j - 1) : D2Less(x, cs[j], cs[j2])

\* C5: when the loop stops because no assignment changed, the returned
\* centroids are a fixed point of the assignment step: every point's label is
\* the lowest-index nearest returned centroid.
C5_FixedPoint ==
  (pc = "ret" /\ ~changed) =>
     \A i \in 1..Len(points) : LowestNearest(points[i], C, labels[i] + 1)

RECURSIVE ChannelSum(_, _, _)
ChannelSum(X, ch, i) == IF i > Len(X) THEN 0 ELSE X[i][ch] + ChannelSum(X, ch, i + 1)

\* C6: for k = 1 (and maxIter >= 1) kmeans returns one centroid, the exact
\* channel-wise mean of all points.
C6_MeanForK1 ==
  (pc = "ret" /\ k = 1 /\ maxIter >= 1) =>
     /\ Len(C) = 1
     /\ \A ch \in 1..3 : C[1].s[ch] * Len(points) = C[1].c * ChannelSum(points, ch, 1)

\* a k = 1 run returned a mean that is none of the points
C6_Witness ==
  /\ pc = "ret" /\ k = 1 /\ Len(points) >= 2
  /\ \A i \in 1..Len(points) : C[1] # CopyPoint(points[i])

\* b is v = s/c rounded to the nearest integer, halves upwards, within 0..255
IsRounded(b, s, c) == b \in 0..255 /\ 2 * c * b - c <= 2 * s /\ 2 * s < 2 * c * b + c

\* C7: the segmented canvas has one pixel per image pixel, at the same place,
\* and each is the quantized colour, at opacity 255, of the lowest-index
\* centroid nearest to the image pixel.
C7_SegmentNearestCentroid ==
  clustered =>
    /\ imgData # NULL
    /\ segCanvas.w = Val(imgData).w /\ segCanvas.h = Val(imgData).h
    /\ Len(segCanvas.data) = Len(Val(imgData).pixels)
    /\ \A i \in 1..Len(segCanvas.data) :
         \E j \in 1..Len(centroids) :
            /\ LowestNearest(Val(imgData).pixels[i], centroids, j)
            /\ \A ch \in 1..3 : IsRounded(segCanvas.data[i][ch], centroids[j].s[ch], centroids[j].c)
            /\ segCanvas.data[i][4] = 255

\* a segmented image in which some pixel is equally near to two centroids of
\* different colours
C7_Witness ==
  /\ clustered /\ imgData # NULL
  /\ \E i \in 1..Len(Val(imgData).pixels), j1, j2 \in 1..Len(centroids) :
        /\ j1 < j2
        /\ LowestNearest(Val(imgData).pixels[i], centroids, j1)
        /\ ~D2Less(Val(imgData).pixels[i], centroids[j1], centroids[j2])
        /\ Quantize(centroids[j1]) # Quantize(centroids[j2])

\* an iteration of the for loop is about to run: assignment, then update
IterationStep == pc = "iter" /\ iter < maxIter

Members(lab, j) == {i \in 1..Len(lab) : lab[i] = j}

RECURSIVE MemberSum(_, _, _)
MemberSum(X, S, ch) ==
  IF S = {} THEN 0
  ELSE LET i == CHOOSE i \in S : TRUE IN X[i][ch] + MemberSum(X, S \ {i}, ch)

\* c is the channel-wise mean of the points X[i], i in S
IsMeanOf(c, X, S) ==
  \A ch \in 1..3 : c.s[ch] * Cardinality(S) = c.c * MemberSum(X, S, ch)

\* C11: in the update step of every iteration a centroid whose cluster got no
\* point keeps exactly the value it had before the step, and a centroid with
\* at least one point becomes the channel-wise mean of the points labelled
\* with it.
C11_UpdateKeepsEmpty ==
  [][ IterationStep =>
        /\ Len(C') = Len(C)
        /\ \A j \in 1..Len(C) :
              IF Members(labels', j - 1) = {}
              THEN C'[j] = C[j]
              ELSE IsMeanOf(C'[j], points, Members(labels', j - 1)) ]_vars

\* an update has run in which one cluster had no point and another had several
C11_Witness ==
  /\ pc = "ret" /\ maxIter >= 1
  /\ \E j \in 1..Len(C) : Members(labels, j - 1) = {}
  /\ \E j \in 1..Len(C) : Cardinality(Members(labels, j - 1)) >= 2

\* C12: after the assignment step of every iteration every point has one
\* label in 0..k-1, the index of a centroid at minimum squared distance from
\* it (the centroids as they are before that iteration's update), and the
\* lowest such index when several centroids are at that distance.
C12_AssignLowestNearest ==
  [][ IterationStep =>
        /\ Len(labels') = Len(points)
        /\ \A i \in 1..Len(points) :
              /\ labels'[i] \in 0..(k - 1)
              /\ LowestNearest(points[i], C, labels'[i] + 1) ]_vars

\* the loop has stopped after an iteration that changed no label (so its
\* update changed no centroid), and some point, at the same distance from two
\* different centroids, carries the lower index
C12_Witness ==
  /\ pc = "ret" /\ ~changed /\ iter >= 1
  /\ \E i \in 1..Len(points), j1, j2 \in 1..Len(C) :
        /\ j1 < j2 /\ C[j1] # C[j2]
        /\ labels[i] = j1 - 1
        /\ ~D2Less(points[i], C[j1], C[j2])
        /\ ~D2Less(points[i], C[j2], C[j1])

\* the centroids drawn so far are copies of the points at pairwise distinct
\* indices (the indices in used), in some order
InitialCopies ==
  /\ used \subseteq 0..(Len(points) - 1)
  /\ Cardinality(used) = Len(C)
  /\ \E f \in [1..Len(C) -> used] :
        /\ \A j1, j2 \in 1..Len(C) : f[j1] = f[j2] => j1 = j2
        /\ \A j \in 1..Len(C) : C[j].s = points[f[j] + 1] /\ C[j].c = 1

\* C16: kmeans draws its k initial centroids as copies of the points at k
\* pairwise distinct indices and never changes the points it is given: no
\* step of a run changes points, for any k and any maxIter; with maxIter = 0
\* the centroids returned are the k initial copies.
C16_InitCopiesPointsKept ==
  /\ [][ points' = points ]_vars
  /\ []( (pc = "init" \/ (pc = "iter" /\ iter = 0)) => InitialCopies )
  /\ []( pc = "iter" => Len(C) = k )
  /\ []( (pc = "ret" /\ maxIter = 0) => (InitialCopies /\ Len(C) = k) )

\* a run with maxIter = 0 and k >= 2 returns, over points of which two have
\* different colours
C16_Witness ==
  /\ pc = "ret" /\ maxIter = 0
  /\ k >= 2 /\ Len(C) = k
  /\ C[1] # C[2]
  /\ points = BuildPoints(Val(imgData))

----------------------------------------------------------------------------
(* Properties of the gestures *)

\* C8: zoomVal is a number greater than zero in every reachable state.
C8_ZoomPositive == zoomVal.kind = "fin" /\ zoomVal.sg = 1

CurDist == distance(pointers[1].p, pointers[2].p)
CurMid == midpoint(pointers[1].p, pointers[2].p)

\* a pointermove of one of two active pointers, with a baseline recorded
PinchMoveStep ==
  /\ ev' = "move" /\ nCam' = nCam + 1
  /\ Len(pointers) = 2 /\ lastPinchDist # NULL /\ lastMid # NULL

\* zoomVal' = zoomVal * sqrt(dd / ll), for finite zoomVal and ll > 0
\* (z2.n / z2.d, in lowest terms, is (z.n * dd) / (z.d * ll))
ZoomScaled(z, z2, dd, ll) ==
  /\ z2.kind = "fin"
  /\ z2.sg = z.sg * Sgn(dd)
  /\ LET num == z.n * dd
         den == z.d * ll
     IN /\ z2.n = num \div GCD(num, den)
        /\ z2.d = den \div GCD(num, den)

\* C9: a move with exactly two active pointers and a recorded baseline
\* multiplies zoom by (current distance / baseline distance), adds (current
\* midpoint - baseline midpoint) to pan, leaves the rotation unchanged and makes
\* the current distance and midpoint the baseline; so over a pinch the pan has
\* moved by (current midpoint - first midpoint) and the zoom, while it is still
\* a number, is scaled by (current distance / first distance): doubling the
\* distance about an unmoved midpoint doubles zoom and leaves pan unchanged.
\* (zoomVal stops being a number when the two pointers coincide: the factors
\* 0 and then x/0 are multiplied in as they are.)
C9_PinchZoomPan ==
  /\ [][ PinchMoveStep =>
           /\ (zoomVal.kind = "fin" /\ Val(lastPinchDist) > 0) =>
                 ZoomScaled(zoomVal, zoomVal', CurDist', Val(lastPinchDist))
           /\ (zoomVal.kind = "fin" /\ zoomVal.sg # 0 /\ Val(lastPinchDist) = 0) =>
                 zoomVal'.kind # "fin"
           /\ panX' - panX = CurMid'[1] - Val(lastMid)[1]
           /\ panY' - panY = CurMid'[2] - Val(lastMid)[2]
           /\ rotXVal' = rotXVal /\ rotYVal' = rotYVal
           /\ lastPinchDist' = Some(CurDist')
           /\ lastMid' = Some(CurMid') ]_vars
  /\ []( (pinch0 # NULL /\ Len(pointers) = 2) =>
           LET p0 == Val(pinch0) IN
           /\ (zoomVal.kind = "fin" /\ p0.zoom.kind = "fin" /\ p0.dist > 0) =>
                 ZoomScaled(p0.zoom, zoomVal, CurDist, p0.dist)
           /\ panX - p0.panX = CurMid[1] - p0.mid[1]
           /\ panY - p0.panY = CurMid[2] - p0.mid[2]
           /\ (CurDist = 4 * p0.dist /\ CurMid = p0.mid) =>
                 /\ panX = p0.panX /\ panY = p0.panY
                 /\ (zoomVal.kind = "fin" /\ p0.zoom.kind = "fin" /\ p0.dist > 0) =>
                       ZoomScaled(p0.zoom, zoomVal, 4, 1) )

\* a pinch whose two pointers have both moved, doubling their distance about
\* the midpoint they started with
C9_Witness ==
  /\ pinch0 # NULL /\ Len(pointers) = 2 /\ ev = "move"
  /\ Val(pinch0).dist > 0
  /\ CurDist = 4 * Val(pinch0).dist
  /\ CurMid = Val(pinch0).mid
  /\ zoomVal = [kind |-> "fin", sg |-> 1, n |-> 144, d |-> 25]
  /\ lastPinchDist = Some(CurDist)

\* a pointermove of a pointer that is down
ActiveMoveStep == ev' = "move" /\ nCam' = nCam + 1

\* C13: after a pointerup or pointercancel every baseline (single position,
\* pinch distance, midpoint) is cleared, and the pointermove handled directly
\* after it changes neither rotation, zoom nor pan, however many pointers are
\* still down: with one or two of them down it only records the baseline.
C13_ReleaseClearsBaselines ==
  /\ [](ev \in {"up", "cancel"} =>
          (lastSingle = NULL /\ lastPinchDist = NULL /\ lastMid = NULL))
  /\ [][ (ev \in {"up", "cancel"} /\ ev' = "move") =>
           /\ UNCHANGED cameraVars
           /\ (ActiveMoveStep /\ Len(pointers) = 1) =>
                 /\ lastSingle' = Some(pointers'[1].p)
                 /\ lastPinchDist' = NULL /\ lastMid' = NULL
           /\ (ActiveMoveStep /\ Len(pointers) = 2) =>
                 /\ lastPinchDist' = Some(CurDist')
                 /\ lastMid' = Some(CurMid')
                 /\ lastSingle' = NULL
           /\ ~ActiveMoveStep => UNCHANGED gestureVars ]_vars

\* after a pinch that moved the pan, a pointer was released and the one
\* pointer left has moved: the rotation is untouched and the baseline is set
C13_Witness ==
  /\ relMove /\ ev = "move"
  /\ Len(pointers) = 1
  /\ panX # 0
  /\ rotXVal = 0 /\ rotYVal = 0
  /\ lastSingle = Some(pointers[1].p)

\* C14: while more than two pointers are down, a move of one of the first two
\* tracked pointers scales zoom and shifts pan by the two-pointer rule (and
\* makes the current distance and midpoint the baseline), and a move of any
\* other pointer changes that pointer's stored position only.
C14_FirstTwoDriveZoomPan ==
  [][ (ActiveMoveStep /\ Len(pointers) > 2) =>
        IF pointers'[1] # pointers[1] \/ pointers'[2] # pointers[2]
        THEN (lastPinchDist # NULL /\ lastMid # NULL) =>
               /\ (zoomVal.kind = "fin" /\ Val(lastPinchDist) > 0) =>
                     ZoomScaled(zoomVal, zoomVal', CurDist', Val(lastPinchDist))
               /\ panX' - panX = CurMid'[1] - Val(lastMid)[1]
               /\ panY' - panY = CurMid'[2] - Val(lastMid)[2]
               /\ lastPinchDist' = Some(CurDist')
               /\ lastMid' = Some(CurMid')
        ELSE /\ UNCHANGED cameraVars
             /\ UNCHANGED <<lastPinchDist, lastMid, lastSingle>>
             /\ Len(pointers') = Len(pointers)
             /\ \A i \in 1..Len(pointers) : pointers'[i].id = pointers[i].id ]_vars

\* z2 = z * (1 + (-deltaY) * 0.001), for the fraction a / b = (1000 - deltaY) / 1000
WheelScaled(z, z2, deltaY) ==
  LET g == GCD(Abs(1000 - deltaY), 1000)
      a == (1000 - deltaY) \div g
      b == 1000 \div g
  IN IF z.kind = "nan" THEN z2.kind = "nan"
     ELSE IF z.kind = "inf"
     THEN IF a = 0 THEN z2.kind = "nan"
          ELSE z2.kind = "inf" /\ z2.sg = z.sg * Sgn(a)
     ELSE /\ z2.kind = "fin"
          /\ z2.sg = z.sg * Sgn(a)
          /\ LET num == z.n * a * a
                 den == z.d * b * b
             IN IF z.sg * Sgn(a) = 0 THEN z2.n = 0
                ELSE /\ z2.n = num \div GCD(num, den)
                     /\ z2.d = den \div GCD(num, den)

\* C15: a wheel event multiplies zoom by (1 + (-deltaY) * 0.001), whatever the
\* number of pointers down, and changes neither rotation, pan, the pointers
\* down and their positions, nor any baseline.
C15_WheelOnlyZoom ==
  [][ ev' = "wheel" =>
        /\ \E deltaY \in DeltasMulti : WheelScaled(zoomVal, zoomVal', deltaY)
        /\ UNCHANGED <<rotXVal, rotYVal, panX, panY>>
        /\ UNCHANGED <<pointers, lastPinchDist, lastMid, lastSingle>> ]_vars

\* a wheel event with three pointers down and a pinch baseline recorded has
\* made zoom negative (deltaY = 1500)
C15_Witness ==
  /\ ev = "wheel" /\ Len(pointers) = 3
  /\ lastPinchDist # NULL
  /\ zoomVal.kind = "fin" /\ zoomVal.sg = -1

\* C20: a recorded baseline agrees with the stored pointer positions: with
\* one pointer down lastSingle is its position, with two down lastPinchDist
\* and lastMid are the distance and midpoint of the two positions; so a move
\* rotates, scales and pans by the displacement of that one event.
C20_BaselinesAgree ==
  /\ []( (Len(pointers) = 1 /\ lastSingle # NULL) => Val(lastSingle) = pointers[1].p )
  /\ []( (Len(pointers) = 2 /\ lastPinchDist # NULL) => Val(lastPinchDist) = CurDist )
  /\ []( (Len(pointers) = 2 /\ lastMid # NULL) => Val(lastMid) = CurMid )
  /\ [][ (ActiveMoveStep /\ Len(pointers) = 1 /\ lastSingle # NULL) =>
           /\ rotYVal' - rotYVal = pointers'[1].p[1] - pointers[1].p[1]
           /\ rotXVal' - rotXVal = pointers'[1].p[2] - pointers[1].p[2] ]_vars
  /\ [][ (ActiveMoveStep /\ Len(pointers) = 2 /\ lastPinchDist # NULL /\ lastMid # NULL) =>
           /\ panX' - panX = CurMid'[1] - CurMid[1]
           /\ panY' - panY = CurMid'[2] - CurMid[2]
           /\ (zoomVal.kind = "fin" /\ CurDist > 0) =>
                 ZoomScaled(zoomVal, zoomVal', CurDist', CurDist) ]_vars

\* a pinch move has shifted the pan and the baseline is the distance and
\* midpoint of the two pointers as they are now
C20_Witness ==
  /\ ev = "move" /\ Len(pointers) = 2
  /\ panX # 0
  /\ lastPinchDist = Some(CurDist)
  /\ lastMid = Some(CurMid)

----------------------------------------------------------------------------
(* Properties across the handlers *)

\* C17: rotation, zoom and pan change only in a pointermove of a pointer that
\* is down and in a wheel event: file selection, load completion or failure,
\* plot, cluster (and the run it starts), reset, pointerdown, pointerup,
\* pointercancel and a pointermove of a pointer that is not down leave them
\* as they are.
C17_CameraOnlyMoveAndWheel ==
  /\ [][ cameraVars' # cameraVars => (ev' = "wheel" \/ ActiveMoveStep) ]_vars
  /\ [][ ev' \in {"file", "load", "loadError", "plot", "cluster", "reset",
                  "down", "up", "cancel"} => UNCHANGED cameraVars ]_vars
  /\ [][ (ev' = "move" /\ ~ActiveMoveStep) =>
           (UNCHANGED cameraVars /\ UNCHANGED gestureVars) ]_vars

\* a load has completed after a wheel event and a rotation: zoom and rotation
\* are as those events left them
C17_Witness ==
  /\ ev = "load" /\ imgData # NULL
  /\ zoomVal # ZoomInit
  /\ rotYVal # 0

\* pts is one point per pixel of img, rows first
RowMajor(pts, img) ==
  /\ Len(pts) = img.w * img.h
  /\ \A y \in 0..(img.h - 1), x \in 0..(img.w - 1) :
        pts[y * img.w + x + 1] = img.pixels[y * img.w + x + 1]

\* C18: whenever points is not empty an image is loaded and points is the
\* row-major extraction of that image, under every interleaving of file
\* selection, load completion, plot, cluster and reset.
C18_PointsOfCurrentImage ==
  Len(points) > 0 => (imgData # NULL /\ RowMajor(points, Val(imgData)))

\* the points of the 2x2 image are plotted while a load of the 2x1 image is
\* still awaited
C18_Witness ==
  /\ ev = "plot" /\ Len(points) = 4
  /\ imgData = Some(Images[3])
  /\ pending[1] > 0

\* C19: between handlers the guard is set exactly when centroids is not
\* empty and exactly when the cluster button is disabled; when it is set an
\* image is loaded; the run that sets it stores exactly its k centroids, and
\* they stay as stored for as long as the guard stays set.
C19_GuardCentroidsButton ==
  /\ []( pc = "idle" =>
           /\ clustered <=> Len(centroids) > 0
           /\ clustered <=> clusterBtnDisabled
           /\ clustered => imgData # NULL )
  /\ [][ (pc = "ret" /\ pc' = "idle") =>
           (clustered' /\ k >= 1 /\ Len(centroids') = k) ]_vars
  /\ [][ (clustered /\ clustered') => centroids' = centroids ]_vars

\* a run with k = 3 has finished: guard set, button disabled, three centroids
C19_Witness ==
  /\ pc = "idle" /\ clustered /\ clusterBtnDisabled
  /\ Len(centroids) = 3
  /\ imgData # NULL

====
